---- MODULE Spec2Model ----
(***************************************************************************)
(* Upload pipeline of the file-sharing portal backend: the token check of  *)
(* SharePointService.ensureValidToken, the upload engine                   *)
(* (uploadFile / simpleUpload / largeFileUpload), site and drive           *)
(* resolution, the download-URL fetch and the orchestrator                 *)
(* UploadProcessingService.processUpload.                                  *)
(*                                                                         *)
(* The repository holds two SharePointService modules.  One               *)
(* (src/unnamed/part_006) takes no token argument and no progress          *)
(* callback and asks ensureValidToken itself; the other                    *)
(* (src/unnamed/part_007) is handed the token and the callback by its      *)
(* caller.  The variable link says which of the two is loaded as           *)
(* './sharePointService.js'; both are modelled.                            *)
(*                                                                         *)
(* Sizes are counted in MiB, times in minutes.                             *)
(*                                                                         *)
(* The download-URL cache (SharePointService.getFileUrls,                  *)
(* refreshUrlsInBackground, RedisService, updateFile's invalidation) and   *)
(* the registry of notification connections (uploadConnections) have       *)
(* their own specifications.  The cache's clock counts ticks, with         *)
(* TicksPerSecond ticks to a second of Redis time to live.                 *)
(***************************************************************************)
EXTENDS Integers, Sequences, FiniteSets, TLC

\* ------------------------------------------------------------------ bounds
MaxFileSize == 9       \* largest file handed to the engine
MaxTime == 3           \* the clock stops advancing here
MaxExp == 9            \* latest expiry of a credential already in MSAL's cache
TokenLifetime == 7     \* lifetime of a credential newly issued by the identity provider
FirstClock == 7        \* the URL cache's clock when the run begins
MaxClock == 11         \* the URL cache's clock stops advancing here
MaxSends == 3          \* sendUpload* calls in one run
MaxRouted == 2         \* sendUpload* calls while two uploads share the registry

\* ------------------------------------------------------- program constants
FiveMinutes == 5       \* ensureValidToken: const fiveMinutes = 5 * 60 * 1000
SimpleUploadLimit == 4 \* uploadFile: file.size < 4 * 1024 * 1024
maxChunkSize == 4      \* largeFileUpload: const maxChunkSize = 4 * 1024 * 1024

VARIABLES
  link,          \* "p006" | "p007": the SharePointService module that is loaded
  now,           \* Date.now()
  msalCache,     \* the credential held by the MSAL client's own cache
  tokPc,         \* position of the running ensureValidToken call
  tokOwner,      \* who awaits it
  tokCall,       \* number of ensureValidToken calls started
  tokFirst,      \* the credential its first getAccessToken() returned
  tokCheck,      \* [done, at]: whether and when its expiry check ran
  tokResult,     \* the credential it returned
  requests,      \* every request sent to the remote store, in issue order
  sitePc,        \* position of the running getSiteAndDriveInfo call
  siteOwner,
  siteToken,     \* the accessToken it sends
  siteError,     \* message of the Error it threw
  urlPc,         \* position of the running getDownloadUrl call
  upPc,          \* position of the running uploadFile call
  upOwner,       \* "direct" | "main" | "thumb"
  upFile,        \* [size, buffer, length]
  upToken,       \* the accessToken it sends
  upCb,          \* whether onProgress was passed
  uploadedBytes,
  upResult,      \* index in requests of the response whose body was returned
  upError,       \* message of the Error thrown
  progressCalls, \* the values passed to onProgress by the engine, in order
  orchPc,        \* position of the running processUpload call
  mainFile,
  thumbnail,
  emitted,       \* sendUploadProgress / Complete / Error calls, in order
  tmpFiles,      \* temporary local files that exist
  unlinked,      \* temporary local files fs.unlink was called on
  fileResponse,
  thumbnailResponse,
  fileRecords,   \* File documents created
  orchError,     \* message of the error caught by processUpload
  clock,         \* Date.now() as the URL cache sees it, in ticks (TicksPerSecond to a second)
  urlCache,      \* the Redis value at file:<fileId>:urls, or NoEntry
  thumbnailId,   \* sharePointThumbnailId of the stored File document
  gfu,           \* per caller: the running SharePointService.getFileUrls call
  refresh,       \* per caller: the refreshUrlsInBackground task its call started
  updPc,         \* position of the running updateFile request
  uploadConnections, \* the registry: uploadId -> connection
  readyState,    \* per connection: ws.readyState
  wire,          \* per connection: the event numbers ws.send was called with, in order
  sends,         \* every sendUpload* call: [type, uploadId, ws, state]
  registered     \* per uploadId: the connection of the latest storeUploadConnection call

tokVars == <<now, msalCache, tokPc, tokOwner, tokCall, tokFirst, tokCheck, tokResult>>
siteVars == <<sitePc, siteOwner, siteToken, siteError>>
upVars == <<upPc, upOwner, upFile, upToken, upCb, uploadedBytes, upResult, upError>>
orchVars == <<orchPc, mainFile, thumbnail, tmpFiles, unlinked,
              fileResponse, thumbnailResponse, fileRecords, orchError>>
cacheVars == <<clock, urlCache, thumbnailId, gfu, refresh, updPc>>
wsVars == <<uploadConnections, readyState, wire, sends, registered>>
vars == <<link, tokVars, requests, siteVars, urlPc, upVars, progressCalls, emitted, orchVars,
          cacheVars, wsVars>>

\* ---------------------------------------------------------------- values
\* null / undefined where a token is expected
NoToken == [kind |-> "none", exp |-> 0, forced |-> FALSE, readable |-> FALSE, call |-> 0]

\* A JWT: exp is its expiry, forced says it came from skipCache = true, call is
\* the ensureValidToken call during which it was acquired (0: before any),
\* readable says whether its payload parses.
Jwt(exp, forced, readable, call) ==
  [kind |-> "jwt", exp |-> exp, forced |-> forced, readable |-> readable, call |-> call]

NoCheck == [done |-> FALSE, at |-> 0]

NoFile == [size |-> 0, buffer |-> FALSE, length |-> 0, path |-> FALSE]

\* error.message of a remote error payload: absent, or a text
RemoteMessages == {"", "remote says no"}

\* Mutant: the remote message is dropped and the fixed text thrown.
OrDefault_DropsMessage(msg, fallback) == fallback

\* error.message || fallback
OrDefault(msg, fallback) == IF msg = "" THEN fallback ELSE msg

\* ------------------------------------------------------------ Token check
\* msalClient.acquireTokenByClientCredential({scopes, skipCache}): the credentials
\* it can resolve to.  With skipCache it asks the identity provider; without, it
\* may answer from its own cache or ask the provider.  What the provider
\* issues is a well-formed JWT.
acquireTokenByClientCredential(skipCache) ==
  IF skipCache
    THEN {Jwt(now + TokenLifetime, TRUE, TRUE, tokCall)}
    ELSE (IF msalCache.kind = "jwt" THEN {msalCache} ELSE {})
         \cup {Jwt(now + TokenLifetime, FALSE, TRUE, tokCall)}

\* MSALService.getAccessToken(forceRefresh): the tokens it can return; it throws
\* when the client rejects or returns no accessToken.
getAccessToken(forceRefresh) == acquireTokenByClientCredential(forceRefresh)

\* Mutant: a token expiring in exactly five minutes is let through.
ExpiresSoon_Strict(t, currentTime) == currentTime + FiveMinutes > t.exp

\* currentTime + fiveMinutes >= expirationTime
ExpiresSoon(t, currentTime) == currentTime + FiveMinutes >= t.exp

\* ensureValidToken up to its first await: getAccessToken() is pending.
StartEnsureValidToken(owner) ==
  /\ tokPc = "idle"
  /\ tokPc' = "acquire"
  /\ tokOwner' = owner
  /\ tokCall' = tokCall + 1
  /\ tokFirst' = NoToken
  /\ tokCheck' = NoCheck
  /\ tokResult' = NoToken
  /\ UNCHANGED <<now, msalCache>>

\* The caller takes the outcome of ensureValidToken.
FinishEnsureValidToken ==
  /\ tokPc' = "idle"
  /\ UNCHANGED <<now, msalCache, tokOwner, tokCall, tokFirst, tokCheck, tokResult>>

otherThanTok == <<cacheVars, wsVars, link, requests, siteVars, urlPc, upVars, progressCalls, emitted, orchVars>>

\* getAccessToken() settles; the token is parsed and its expiry checked.
GetAccessTokenSettles ==
  /\ tokPc = "acquire"
  /\ \/ \* it throws: the catch block asks for a forced refresh
        /\ tokPc' = "catch"
        /\ UNCHANGED <<msalCache, tokFirst, tokCheck, tokResult>>
     \/ \E t \in getAccessToken(FALSE) :
          /\ msalCache' = t
          /\ tokFirst' = t
          /\ tokCheck' = [done |-> t.readable, at |-> now]
          /\ IF ~t.readable
               THEN \* JSON.parse throws: the catch block asks for a forced refresh
                    tokPc' = "catch" /\ tokResult' = NoToken
               ELSE IF ExpiresSoon(t, now)
                      THEN tokPc' = "refresh" /\ tokResult' = NoToken
                      ELSE tokPc' = "returned" /\ tokResult' = t
  /\ UNCHANGED <<now, tokOwner, tokCall>>
  /\ UNCHANGED otherThanTok

\* getAccessToken(true) of the try block settles.
ForcedRefreshSettles ==
  /\ tokPc = "refresh"
  /\ \/ /\ tokPc' = "catch"
        /\ UNCHANGED <<msalCache, tokResult>>
     \/ \E t \in getAccessToken(TRUE) :
          /\ msalCache' = t
          /\ tokResult' = t
          /\ tokPc' = "returned"
  /\ UNCHANGED <<now, tokOwner, tokCall, tokFirst, tokCheck>>
  /\ UNCHANGED otherThanTok

\* getAccessToken(true) of the catch block settles.
CatchRefreshSettles ==
  /\ tokPc = "catch"
  /\ \/ /\ tokPc' = "threw"
        /\ UNCHANGED <<msalCache, tokResult>>
     \/ \E t \in getAccessToken(TRUE) :
          /\ msalCache' = t
          /\ tokResult' = t
          /\ tokPc' = "returned"
  /\ UNCHANGED <<now, tokOwner, tokCall, tokFirst, tokCheck>>
  /\ UNCHANGED otherThanTok

\* Time passes while a credential request is pending.
Tick ==
  /\ tokPc \in {"acquire", "refresh", "catch"}
  /\ now < MaxTime
  /\ now' = now + 1
  /\ UNCHANGED <<msalCache, tokPc, tokOwner, tokCall, tokFirst, tokCheck, tokResult>>
  /\ UNCHANGED otherThanTok

\* A caller outside the pipeline asks for a token.
CallEnsureValidToken ==
  /\ link = "p006"
  /\ orchPc = "idle" /\ upPc = "idle" /\ sitePc = "idle" /\ urlPc = "idle"
  /\ Len(requests) = 0
  /\ StartEnsureValidToken("direct")
  /\ UNCHANGED otherThanTok

\* ------------------------------------------------------ Remote store requests
\* One fetch(): op names the endpoint, owner the call that issued it, bearer
\* whether an Authorization header is sent and auth the token in it; first,
\* last and total are the Content-Range of a chunk PUT (the payload's extent
\* for a single PUT).
Req(op, owner, bearer, auth, first, last, total) ==
  [op |-> op, owner |-> owner, bearer |-> bearer, auth |-> auth, first |-> first,
   last |-> last, total |-> total, status |-> "pending", msg |-> ""]

\* The log once the pending request (always the newest) has been answered.
Settled(status, msg) ==
  [requests EXCEPT ![Len(requests)] = [@ EXCEPT !.status = status, !.msg = msg]]

Pending == Len(requests) > 0 /\ requests[Len(requests)].status = "pending"

AcquireFailed == "Failed to acquire access token"

\* ------------------------------------------------------ getSiteAndDriveInfo
\* Up to its first await.  part_006 asks ensureValidToken; part_007 sends the
\* accessToken it was given.
StartGetSiteAndDriveInfo(owner, accessToken) ==
  /\ sitePc = "idle"
  /\ siteOwner' = owner
  /\ siteError' = ""
  /\ IF link = "p006"
       THEN /\ StartEnsureValidToken("site")
            /\ sitePc' = "token"
            /\ siteToken' = NoToken
            /\ UNCHANGED requests
       ELSE /\ sitePc' = "site"
            /\ siteToken' = accessToken
            /\ requests' = Append(requests, Req("site", "site", TRUE, accessToken, 0, 0, 0))
            /\ UNCHANGED tokVars

\* ensureValidToken has settled for getSiteAndDriveInfo.
SiteTokenSettled ==
  /\ sitePc = "token" /\ tokOwner = "site" /\ tokPc \in {"returned", "threw"}
  /\ FinishEnsureValidToken
  /\ IF tokPc = "threw"
       THEN /\ sitePc' = "threw"
            /\ siteError' = AcquireFailed
            /\ UNCHANGED <<siteToken, requests>>
       ELSE /\ sitePc' = "site"
            /\ siteToken' = tokResult
            /\ requests' = Append(requests, Req("site", "site", TRUE, tokResult, 0, 0, 0))
            /\ UNCHANGED siteError
  /\ UNCHANGED <<cacheVars, wsVars, link, siteOwner, urlPc, upVars, progressCalls, emitted, orchVars>>

\* The site request is answered.
SiteSettles ==
  /\ sitePc = "site" /\ Pending
  /\ \/ \E m \in RemoteMessages :
          /\ requests' = Settled("fail", m)
          /\ sitePc' = "threw"
          /\ siteError' = OrDefault(m, "Failed to get site information")
     \/ /\ requests' = Append(Settled("ok", ""),
                              Req("drives", "site", TRUE, siteToken, 0, 0, 0))
        /\ sitePc' = "drives"
        /\ UNCHANGED siteError
  /\ UNCHANGED <<cacheVars, wsVars, link, tokVars, siteOwner, siteToken, urlPc, upVars, progressCalls,
                 emitted, orchVars>>

\* The drives request is answered.
DrivesSettles ==
  /\ sitePc = "drives" /\ Pending
  /\ \/ \E m \in RemoteMessages :
          /\ requests' = Settled("fail", m)
          /\ sitePc' = "threw"
          /\ siteError' = OrDefault(m, "Failed to get drives")
     \/ \* no drive is named Documents or Shared Documents
        /\ requests' = Settled("ok", "")
        /\ sitePc' = "threw"
        /\ siteError' = "Documents library not found"
     \/ /\ requests' = Settled("ok", "")
        /\ sitePc' = "returned"
        /\ UNCHANGED siteError
  /\ UNCHANGED <<cacheVars, wsVars, link, tokVars, siteOwner, siteToken, urlPc, upVars, progressCalls,
                 emitted, orchVars>>

Quiet == orchPc = "idle" /\ upPc = "idle" /\ sitePc = "idle" /\ urlPc = "idle"
           /\ tokPc = "idle" /\ Len(requests) = 0

\* A caller outside the pipeline resolves site and drive.
CallGetSiteAndDriveInfo ==
  /\ Quiet
  /\ \E t \in IF link = "p006" THEN {NoToken} ELSE getAccessToken(FALSE) :
       StartGetSiteAndDriveInfo("direct", t)
  /\ UNCHANGED <<cacheVars, wsVars, link, urlPc, upVars, progressCalls, emitted, orchVars>>

\* ----------------------------------------------------------- getDownloadUrl
\* A caller asks for the download URL of an item (part_006 only).
CallGetDownloadUrl ==
  /\ Quiet /\ link = "p006"
  /\ StartEnsureValidToken("url")
  /\ urlPc' = "token"
  /\ UNCHANGED <<cacheVars, wsVars, link, requests, siteVars, upVars, progressCalls, emitted, orchVars>>

\* ensureValidToken has settled for getDownloadUrl.
UrlTokenSettled ==
  /\ urlPc = "token" /\ tokOwner = "url" /\ tokPc \in {"returned", "threw"}
  /\ FinishEnsureValidToken
  /\ IF tokPc = "threw"
       THEN urlPc' = "threw" /\ UNCHANGED requests
       ELSE /\ urlPc' = "item"
            /\ requests' = Append(requests, Req("item", "url", TRUE, tokResult, 0, 0, 0))
  /\ UNCHANGED <<cacheVars, wsVars, link, siteVars, upVars, progressCalls, emitted, orchVars>>

\* The item request is answered.
ItemSettles ==
  /\ urlPc = "item" /\ Pending
  /\ \/ \E m \in RemoteMessages :
          requests' = Settled("fail", m) /\ urlPc' = "threw"
     \/ requests' = Settled("ok", "") /\ urlPc' = "returned"
  /\ UNCHANGED <<cacheVars, wsVars, link, tokVars, siteVars, upVars, progressCalls, emitted, orchVars>>

\* ------------------------------------------- progress notification registry
\* const { uploadId, ... } = uploadData: the upload a processUpload run is for
uploadData == [uploadId |-> "up1"]

UploadIds == {"up1", "up2"}
Sockets == {"ws1", "ws2"}

\* ws.readyState
CONNECTING == 0
OPEN == 1
CLOSING == 2
CLOSED == 3

otherThanWs == <<link, tokVars, requests, siteVars, urlPc, upVars, progressCalls, emitted,
                 orchVars, cacheVars>>

\* wss.on('connection', (ws) => ...): the server accepts a client's connection.
OnConnection(w) ==
  /\ readyState[w] = CONNECTING
  /\ readyState' = [readyState EXCEPT ![w] = OPEN]
  /\ UNCHANGED <<uploadConnections, wire, sends, registered>>
  /\ UNCHANGED otherThanWs

\* The closing handshake begins.
BeginClose(w) ==
  /\ readyState[w] = OPEN
  /\ readyState' = [readyState EXCEPT ![w] = CLOSING]
  /\ UNCHANGED <<uploadConnections, wire, sends, registered>>
  /\ UNCHANGED otherThanWs

\* ws.on('close', () => { console.log('WebSocket connection closed') })
OnClose(w) ==
  /\ readyState[w] \in {OPEN, CLOSING}
  /\ readyState' = [readyState EXCEPT ![w] = CLOSED]
  /\ UNCHANGED <<uploadConnections, wire, sends, registered>>
  /\ UNCHANGED otherThanWs

\* Mutant: a connection already registered for the upload is kept.
storeUploadConnection_KeepsFirst(uploadId, w) ==
  /\ readyState[w] = OPEN
  /\ uploadConnections' =
       IF uploadConnections[uploadId] = "none"
         THEN [uploadConnections EXCEPT ![uploadId] = w]
         ELSE uploadConnections
  /\ registered' = [registered EXCEPT ![uploadId] = w]
  /\ UNCHANGED <<readyState, wire, sends>>
  /\ UNCHANGED otherThanWs

\* storeUploadConnection(uploadId, ws), called for a connected client
storeUploadConnection(uploadId, w) ==
  /\ readyState[w] = OPEN
  /\ uploadConnections' = [uploadConnections EXCEPT ![uploadId] = w]
  /\ registered' = [registered EXCEPT ![uploadId] = w]
  /\ UNCHANGED <<readyState, wire, sends>>
  /\ UNCHANGED otherThanWs

\* removeUploadConnection(uploadId): the registry after uploadConnections.delete
removeUploadConnection(uploadId) == [uploadConnections EXCEPT ![uploadId] = "none"]

\* Mutant: the connection's state is not looked at.
IsOpen_AnyState(w) == w # "none"

\* ws && ws.readyState === 1
IsOpen(w) == w # "none" /\ readyState[w] = OPEN

\* What a sendUpload* call found: the connection registered for uploadId and
\* its readyState (CONNECTING when none is registered).
Found(type, uploadId) ==
  LET w == uploadConnections[uploadId]
  IN  [type |-> type, uploadId |-> uploadId, ws |-> w,
       state |-> IF w = "none" THEN CONNECTING ELSE readyState[w]]

\* ws.send(JSON.stringify({ type, ... })) for the event numbered n
WsSend(w, n) == [wire EXCEPT ![w] = Append(@, n)]

\* sendUploadProgress(uploadId, progress)
sendUploadProgress(uploadId) ==
  /\ Len(sends) < MaxSends
  /\ sends' = Append(sends, Found("progress", uploadId))
  /\ LET w == uploadConnections[uploadId]
     IN  IF IsOpen(w)
           THEN wire' = WsSend(w, Len(sends) + 1)
           ELSE UNCHANGED wire
  /\ UNCHANGED <<uploadConnections, readyState, registered>>
  /\ UNCHANGED otherThanWs

\* sendUploadComplete(uploadId, data) and sendUploadError(uploadId, error)
sendUploadTerminal(type, uploadId) ==
  /\ Len(sends) < MaxSends
  /\ sends' = Append(sends, Found(type, uploadId))
  /\ LET w == uploadConnections[uploadId]
     IN  IF IsOpen(w)
           THEN /\ wire' = WsSend(w, Len(sends) + 1)
                /\ uploadConnections' = removeUploadConnection(uploadId)
           ELSE UNCHANGED <<wire, uploadConnections>>
  /\ UNCHANGED <<readyState, registered>>
  /\ UNCHANGED otherThanWs

sendUploadComplete(uploadId) == sendUploadTerminal("complete", uploadId)

sendUploadError(uploadId) == sendUploadTerminal("error", uploadId)

\* The sendUpload* calls a step of processUpload makes: the events the step
\* adds to emitted are sent, in order, for uploadData.uploadId.  No await that
\* a socket event could interleave with lies between the calls of one step, so
\* all of them find the same connection, and a terminal event is the last.
Notify ==
  LET n == Len(emitted') - Len(emitted)
      id == uploadData.uploadId
      w == uploadConnections[id]
  IN  /\ sends' = sends \o [k \in 1..n |-> Found(emitted'[Len(emitted) + k].type, id)]
      /\ IF n > 0 /\ IsOpen(w)
           THEN /\ wire' = [wire EXCEPT ![w] = @ \o [k \in 1..n |-> Len(sends) + k]]
                /\ uploadConnections' =
                     IF emitted'[Len(emitted')].type = "progress"
                       THEN uploadConnections
                       ELSE removeUploadConnection(id)
           ELSE UNCHANGED <<wire, uploadConnections>>
      /\ UNCHANGED <<readyState, registered>>

\* Mutant: an event that cannot be delivered makes the callback throw.
OnProgressThrows_WhenNotDelivered(w) == ~IsOpen(w)

\* await onProgress(0): sendUploadProgress returns normally whatever it finds
\* in the registry, and the callback catches anything it could throw.
OnProgressThrows(w) == FALSE

\* ------------------------------------------------------------ Upload engine
\* Mutant: the slice end is not clamped to the file size.
ChunkEnd_NoClamp(uploaded, fileSize) == uploaded + maxChunkSize

\* The end of fileBuffer.slice(uploadedBytes, Math.min(uploadedBytes + maxChunkSize, fileSize))
ChunkEnd(uploaded, fileSize) ==
  IF uploaded + maxChunkSize < fileSize THEN uploaded + maxChunkSize ELSE fileSize

\* chunk.length
ChunkLength(uploaded, fileSize) == ChunkEnd(uploaded, fileSize) - uploaded

\* Mutant: Math.floor instead of Math.round.
Progress_Floor(uploaded, fileSize) == (100 * uploaded) \div fileSize

\* Math.round((uploadedBytes / fileSize) * 100): the nearest integer, halves up
Progress(uploaded, fileSize) == (200 * uploaded + fileSize) \div (2 * fileSize)

\* Mutant: the limit is written in the wrong unit (4 * 1024).
TakesSimpleUpload_WrongUnit(file) == file.size < 1

\* Mutant: the comparison is not strict.
TakesSimpleUpload_NotStrict(file) == file.size <= SimpleUploadLimit

\* file.size < 4 * 1024 * 1024
TakesSimpleUpload(file) == file.size < SimpleUploadLimit

\* onProgress && onProgress(v): the engine's record of the call, and what the
\* callback of processUpload does with it (sendUploadProgress).
Report(list, cb, v) == IF cb THEN Append(list, v) ELSE list

\* Mutant: every upload's progress is sent to the client.
Forward_AnyUpload(events, cb, owner, v) ==
  Append(events, [type |-> "progress", v |-> v, msg |-> ""])

Forward(events, cb, owner, v) ==
  IF cb /\ owner = "main" THEN Append(events, [type |-> "progress", v |-> v, msg |-> ""])
  ELSE events

\* The PUT of the chunk that starts at uploaded.
ChunkPut(owner, uploaded, fileSize) ==
  Req("chunk", owner, FALSE, NoToken, uploaded,
      uploaded + ChunkLength(uploaded, fileSize) - 1, fileSize)

\* uploadFile from its validation to the first request (simpleUpload's PUT or
\* largeFileUpload's session POST), with log the requests sent so far.
BeginUpload(log, events, owner, file, accessToken, cb) ==
  /\ upFile' = file
  /\ upOwner' = owner
  /\ upToken' = accessToken
  /\ upCb' = cb
  /\ uploadedBytes' = 0
  /\ upResult' = 0
  /\ IF ~file.buffer
       THEN /\ upPc' = "threw"
            /\ upError' = "Invalid file data"
            /\ requests' = log
            /\ emitted' = events
            /\ UNCHANGED progressCalls
       ELSE IF TakesSimpleUpload(file)
         THEN /\ upPc' = "simplePut"
              /\ upError' = ""
              /\ progressCalls' = Report(progressCalls, cb, 0)
              /\ emitted' = Forward(events, cb, owner, 0)
              /\ requests' = Append(log, Req("put", owner, TRUE, accessToken,
                                             0, file.length - 1, file.length))
         ELSE /\ upPc' = "session"
              /\ upError' = ""
              /\ requests' = Append(log, Req("session", owner, TRUE, accessToken, 0, 0, 0))
              /\ emitted' = events
              /\ UNCHANGED progressCalls

\* uploadFile up to its first await.  part_006 asks ensureValidToken first and
\* has no accessToken and no onProgress parameter: what is passed there is
\* ignored.
StartUploadFile(events, owner, file, accessToken, cb) ==
  /\ IF link = "p006"
       THEN /\ StartEnsureValidToken("upload")
            /\ upPc' = "token"
            /\ upFile' = file
            /\ upOwner' = owner
            /\ upToken' = NoToken
            /\ upCb' = FALSE
            /\ uploadedBytes' = 0
            /\ upResult' = 0
            /\ upError' = ""
            /\ emitted' = events
            /\ UNCHANGED <<requests, progressCalls>>
       ELSE /\ BeginUpload(requests, events, owner, file, accessToken, cb)
            /\ UNCHANGED tokVars

\* ensureValidToken has settled for uploadFile (part_006).
UploadTokenSettled ==
  /\ upPc = "token" /\ tokOwner = "upload" /\ tokPc \in {"returned", "threw"}
  /\ FinishEnsureValidToken
  /\ IF tokPc = "threw"
       THEN /\ upPc' = "threw"
            /\ upError' = AcquireFailed
            /\ UNCHANGED <<upOwner, upFile, upToken, upCb, uploadedBytes, upResult,
                           requests, progressCalls, emitted>>
       ELSE BeginUpload(requests, emitted, upOwner, upFile, tokResult, FALSE)
  /\ Notify
  /\ UNCHANGED <<cacheVars, link, siteVars, urlPc, orchVars>>

\* simpleUpload: the single PUT is answered.
SimplePutSettles ==
  /\ upPc = "simplePut" /\ Pending
  /\ \/ \E m \in RemoteMessages :
          /\ requests' = Settled("fail", m)
          /\ upPc' = "threw"
          /\ upError' = OrDefault(m, "Failed to upload file")
          /\ UNCHANGED <<upResult, progressCalls, emitted>>
     \/ /\ requests' = Settled("ok", "")
        /\ upPc' = "returned"
        /\ upResult' = Len(requests)
        /\ progressCalls' = Report(progressCalls, upCb, 100)
        /\ emitted' = Forward(emitted, upCb, upOwner, 100)
        /\ UNCHANGED upError
  /\ Notify
  /\ UNCHANGED <<cacheVars, link, tokVars, siteVars, urlPc, upOwner, upFile, upToken, upCb,
                 uploadedBytes, orchVars>>

\* Mutant: the next chunk's PUT is sent along with this one, without awaiting.
LoopFrom_Pipelined(log, uploaded) ==
  IF uploaded < upFile.length
    THEN /\ requests' =
              (IF uploaded + maxChunkSize < upFile.length
                 THEN Append(Append(log, ChunkPut(upOwner, uploaded, upFile.length)),
                             ChunkPut(upOwner, uploaded + maxChunkSize, upFile.length))
                 ELSE Append(log, ChunkPut(upOwner, uploaded, upFile.length)))
         /\ upPc' = "chunk"
         /\ upResult' = 0
    ELSE /\ requests' = log
         /\ upPc' = "returned"
         /\ upResult' = 0

\* largeFileUpload: one pass of the while loop from its test, with log the
\* requests answered so far and uploaded the bytes sent: the next chunk's PUT
\* is issued, or the loop is left and the function returns undefined.
LoopFrom(log, uploaded) ==
  IF uploaded < upFile.length
    THEN /\ requests' = Append(log, ChunkPut(upOwner, uploaded, upFile.length))
         /\ upPc' = "chunk"
         /\ upResult' = 0
    ELSE /\ requests' = log
         /\ upPc' = "returned"
         /\ upResult' = 0

\* largeFileUpload: the createUploadSession POST is answered.
SessionSettles ==
  /\ upPc = "session" /\ Pending
  /\ \/ \E m \in RemoteMessages :
          /\ requests' = Settled("fail", m)
          /\ upPc' = "threw"
          /\ upError' = OrDefault(m, "Failed to create upload session")
          /\ UNCHANGED <<upResult, uploadedBytes, progressCalls, emitted>>
     \/ /\ uploadedBytes' = 0
        /\ progressCalls' = Report(progressCalls, upCb, 0)
        /\ emitted' = Forward(emitted, upCb, upOwner, 0)
        /\ LoopFrom(Settled("ok", ""), 0)
        /\ UNCHANGED upError
  /\ Notify
  /\ UNCHANGED <<cacheVars, link, tokVars, siteVars, urlPc, upOwner, upFile, upToken, upCb, orchVars>>

\* Mutant: the response of the first accepted chunk is returned.
AfterChunk_ReturnsEarly(log, uploaded) ==
  /\ requests' = log
  /\ upPc' = "returned"
  /\ upResult' = Len(log)

\* largeFileUpload after an accepted chunk: the body of the chunk's response is
\* returned when uploadedBytes === fileSize, else the loop goes on.
AfterChunk(log, uploaded) ==
  IF uploaded = upFile.length
    THEN /\ requests' = log
         /\ upPc' = "returned"
         /\ upResult' = Len(log)
    ELSE LoopFrom(log, uploaded)

\* largeFileUpload: a chunk PUT is answered.
ChunkSettles ==
  /\ upPc = "chunk" /\ Pending
  /\ \/ \E m \in RemoteMessages :
          /\ requests' = Settled("fail", m)
          /\ upPc' = "threw"
          /\ upError' = OrDefault(m, "Failed to upload file chunk")
          /\ UNCHANGED <<upResult, uploadedBytes, progressCalls, emitted>>
     \/ LET uploaded == uploadedBytes + ChunkLength(uploadedBytes, upFile.length)
        IN /\ uploadedBytes' = uploaded
           /\ progressCalls' = Report(progressCalls, upCb, Progress(uploaded, upFile.length))
           /\ emitted' = Forward(emitted, upCb, upOwner, Progress(uploaded, upFile.length))
           /\ AfterChunk(Settled("ok", ""), uploaded)
           /\ UNCHANGED upError
  /\ Notify
  /\ UNCHANGED <<cacheVars, link, tokVars, siteVars, urlPc, upOwner, upFile, upToken, upCb, orchVars>>

\* The files a caller can hand over: multer's memory storage gives
\* buffer.length = size; a file without buffer is possible.
Files ==
  {[size |-> n, buffer |-> TRUE, length |-> n, path |-> p] :
     n \in 0..MaxFileSize, p \in BOOLEAN}
  \cup {[size |-> n, buffer |-> FALSE, length |-> 0, path |-> FALSE] : n \in {1}}

\* A controller uploads a file itself (uploadFile of the file controllers).
CallUploadFile ==
  /\ Quiet
  /\ \E f \in Files, cb \in BOOLEAN :
       \E t \in IF link = "p006" THEN {NoToken} ELSE getAccessToken(FALSE) :
         /\ link = "p006" => ~cb
         /\ ~f.path
         /\ StartUploadFile(emitted, "direct", f, t, cb)
  /\ Notify
  /\ UNCHANGED <<cacheVars, link, siteVars, urlPc, orchVars>>

\* ------------------------------------------------------------ processUpload
Progress0 == [type |-> "progress", v |-> 0, msg |-> ""]

\* The thumbnails a request can carry; NoFile stands for none.
Thumbnails ==
  {f \in Files : f.size \in {1, maxChunkSize + 1}} \cup {NoFile}

\* await fs.unlink(path) on a file of the set files: it throws when the file
\* does not exist, and may fail on one that does.
Unlink(files, name) ==
  IF name \in files
    THEN {[ok |-> TRUE, files |-> files \ {name}], [ok |-> FALSE, files |-> files]}
    ELSE {[ok |-> FALSE, files |-> files]}

\* processUpload up to its first await: getSiteAndDriveInfo().
StartProcessUpload ==
  /\ Quiet
  /\ \E mf \in Files, th \in Thumbnails :
       /\ mainFile' = mf
       /\ thumbnail' = th
       /\ tmpFiles' = (IF mf.path THEN {"main"} ELSE {}) \cup (IF th.path THEN {"thumb"} ELSE {})
  /\ unlinked' = {}
  /\ orchPc' = "site"
  /\ StartGetSiteAndDriveInfo("orch", NoToken)
  /\ UNCHANGED <<cacheVars, wsVars, link, urlPc, upVars, progressCalls, emitted, fileResponse,
                 thumbnailResponse, fileRecords, orchError>>

\* getSiteAndDriveInfo has settled: the initial progress is sent and the main
\* file is handed to uploadFile(siteId, driveId, mainFile, null, onProgress).
OrchSiteSettled ==
  /\ orchPc = "site" /\ siteOwner = "orch" /\ sitePc \in {"returned", "threw"}
  /\ sitePc' = "idle"
  /\ IF sitePc = "threw"
       THEN /\ orchPc' = "catch"
            /\ orchError' = siteError
            /\ UNCHANGED <<tokVars, requests, upVars, progressCalls, emitted>>
       ELSE IF OnProgressThrows(uploadConnections[uploadData.uploadId])
         THEN /\ orchPc' = "catch"
              /\ orchError' = "WebSocket is not open"
              /\ emitted' = Append(emitted, Progress0)
              /\ UNCHANGED <<tokVars, requests, upVars, progressCalls>>
         ELSE /\ orchPc' = "main"
              /\ StartUploadFile(Append(emitted, Progress0), "main", mainFile, NoToken, TRUE)
              /\ UNCHANGED orchError
  /\ Notify
  /\ UNCHANGED <<cacheVars, link, siteOwner, siteToken, siteError, urlPc, mainFile, thumbnail,
                 tmpFiles, unlinked, fileResponse, thumbnailResponse, fileRecords>>

\* The main file's upload has settled: its temporary file is removed and the
\* thumbnail, if any, is handed to uploadFile(siteId, driveId, thumbnail).
OrchMainSettled ==
  /\ orchPc = "main" /\ upOwner = "main" /\ upPc \in {"returned", "threw"}
  /\ IF upPc = "threw"
       THEN /\ orchPc' = "catch"
            /\ orchError' = upError
            /\ upPc' = "idle"
            /\ UNCHANGED <<tokVars, requests, upOwner, upFile, upToken, upCb,
                           uploadedBytes, upResult, upError, progressCalls, emitted,
                           tmpFiles, unlinked, fileResponse>>
       ELSE /\ fileResponse' = upResult
            /\ IF mainFile.path
                 THEN /\ \E r \in Unlink(tmpFiles, "main") : tmpFiles' = r.files
                      /\ unlinked' = unlinked \cup {"main"}
                 ELSE UNCHANGED <<tmpFiles, unlinked>>
            /\ UNCHANGED orchError
            /\ IF thumbnail # NoFile
                 THEN /\ orchPc' = "thumb"
                      /\ StartUploadFile(emitted, "thumb", thumbnail, NoToken, FALSE)
                 ELSE /\ orchPc' = "create"
                      /\ upPc' = "idle"
                      /\ UNCHANGED <<tokVars, requests, upOwner, upFile, upToken, upCb,
                                     uploadedBytes, upResult, upError, progressCalls,
                                     emitted>>
  /\ Notify
  /\ UNCHANGED <<cacheVars, link, siteVars, urlPc, mainFile, thumbnail, thumbnailResponse, fileRecords>>

\* Mutant: a failed thumbnail upload is logged and the run goes on.
OrchThumbSettled_IgnoresFailure ==
  /\ orchPc = "thumb" /\ upOwner = "thumb" /\ upPc \in {"returned", "threw"}
  /\ upPc' = "idle"
  /\ orchPc' = "create"
  /\ thumbnailResponse' = upResult
  /\ IF thumbnail.path
       THEN /\ \E r \in Unlink(tmpFiles, "thumb") : tmpFiles' = r.files
            /\ unlinked' = unlinked \cup {"thumb"}
       ELSE UNCHANGED <<tmpFiles, unlinked>>
  /\ UNCHANGED orchError
  /\ UNCHANGED <<cacheVars, wsVars, link, tokVars, requests, siteVars, urlPc, upOwner, upFile, upToken, upCb,
                 uploadedBytes, upResult, upError, progressCalls, emitted, mainFile,
                 thumbnail, fileResponse, fileRecords>>

\* The thumbnail's upload has settled: its temporary file is removed.
OrchThumbSettled ==
  /\ orchPc = "thumb" /\ upOwner = "thumb" /\ upPc \in {"returned", "threw"}
  /\ upPc' = "idle"
  /\ IF upPc = "threw"
       THEN /\ orchPc' = "catch"
            /\ orchError' = upError
            /\ UNCHANGED <<tmpFiles, unlinked, thumbnailResponse>>
       ELSE /\ orchPc' = "create"
            /\ thumbnailResponse' = upResult
            /\ IF thumbnail.path
                 THEN /\ \E r \in Unlink(tmpFiles, "thumb") : tmpFiles' = r.files
                      /\ unlinked' = unlinked \cup {"thumb"}
                 ELSE UNCHANGED <<tmpFiles, unlinked>>
            /\ UNCHANGED orchError
  /\ UNCHANGED <<cacheVars, wsVars, link, tokVars, requests, siteVars, urlPc, upOwner, upFile, upToken, upCb,
                 uploadedBytes, upResult, upError, progressCalls, emitted, mainFile,
                 thumbnail, fileResponse, fileRecords>>

\* File.create(fileData) settles; on success getFileUrls is called.  Reading
\* fileResponse.id throws when uploadFile returned undefined, and part_007 has
\* no getFileUrls to call.
OrchCreateSettles ==
  /\ orchPc = "create"
  /\ IF fileResponse = 0
       THEN /\ orchPc' = "catch"
            /\ orchError' = "Cannot read properties of undefined"
            /\ UNCHANGED fileRecords
       ELSE \/ /\ orchPc' = "catch"
               /\ orchError' = "File validation failed"
               /\ UNCHANGED fileRecords
            \/ /\ fileRecords' = fileRecords + 1
               /\ IF link = "p006"
                    THEN orchPc' = "urls" /\ UNCHANGED orchError
                    ELSE /\ orchPc' = "catch"
                         /\ orchError' = "sharePointService.getFileUrls is not a function"
  /\ UNCHANGED <<cacheVars, wsVars, link, tokVars, requests, siteVars, urlPc, upVars, progressCalls, emitted,
                 mainFile, thumbnail, tmpFiles, unlinked, fileResponse, thumbnailResponse>>

\* getFileUrls settles: the URLs are sent with sendUploadComplete, or its
\* error is caught.
OrchUrlsSettle ==
  /\ orchPc = "urls"
  /\ \/ /\ orchPc' = "done"
        /\ emitted' = Append(emitted, [type |-> "complete", v |-> 0, msg |-> ""])
        /\ UNCHANGED orchError
     \/ \E m \in RemoteMessages :
          /\ orchPc' = "catch"
          /\ orchError' = OrDefault(m, "Failed to get download URL")
          /\ UNCHANGED emitted
  /\ Notify
  /\ UNCHANGED <<cacheVars, link, tokVars, requests, siteVars, urlPc, upVars, progressCalls,
                 mainFile, thumbnail, tmpFiles, unlinked, fileResponse, thumbnailResponse,
                 fileRecords>>

\* Mutant: the error of a failed cleanup takes the place of the caught one.
OrchCatch_ReportsCleanupError ==
  /\ orchPc = "catch"
  /\ orchPc' = "failed"
  /\ IF mainFile.path
       THEN \E r \in Unlink(tmpFiles, "main") :
              /\ emitted' = Append(emitted,
                      [type |-> "error", v |-> 0,
                       msg |-> IF r.ok THEN OrDefault(orchError, "Failed to upload file")
                               ELSE "ENOENT: no such file or directory"])
              /\ IF r.ok /\ thumbnail.path
                   THEN /\ \E q \in Unlink(r.files, "thumb") : tmpFiles' = q.files
                        /\ unlinked' = unlinked \cup {"main", "thumb"}
                   ELSE /\ tmpFiles' = r.files
                        /\ unlinked' = unlinked \cup {"main"}
       ELSE /\ emitted' = Append(emitted, [type |-> "error", v |-> 0,
                                           msg |-> OrDefault(orchError, "Failed to upload file")])
            /\ IF thumbnail.path
                 THEN /\ \E q \in Unlink(tmpFiles, "thumb") : tmpFiles' = q.files
                      /\ unlinked' = unlinked \cup {"thumb"}
                 ELSE UNCHANGED <<tmpFiles, unlinked>>
  /\ Notify
  /\ UNCHANGED <<cacheVars, link, tokVars, requests, siteVars, urlPc, upVars, progressCalls,
                 mainFile, thumbnail, fileResponse, thumbnailResponse, fileRecords,
                 orchError>>

\* The catch block: both temporary files are unlinked inside one try, then
\* sendUploadError(uploadId, error.message || 'Failed to upload file').
OrchCatch ==
  /\ orchPc = "catch"
  /\ orchPc' = "failed"
  /\ emitted' = Append(emitted, [type |-> "error", v |-> 0,
                                 msg |-> OrDefault(orchError, "Failed to upload file")])
  /\ IF mainFile.path
       THEN \E r \in Unlink(tmpFiles, "main") :
              IF r.ok /\ thumbnail.path
                THEN /\ \E q \in Unlink(r.files, "thumb") : tmpFiles' = q.files
                     /\ unlinked' = unlinked \cup {"main", "thumb"}
                ELSE /\ tmpFiles' = r.files
                     /\ unlinked' = unlinked \cup {"main"}
       ELSE IF thumbnail.path
              THEN /\ \E q \in Unlink(tmpFiles, "thumb") : tmpFiles' = q.files
                   /\ unlinked' = unlinked \cup {"thumb"}
              ELSE UNCHANGED <<tmpFiles, unlinked>>
  /\ Notify
  /\ UNCHANGED <<cacheVars, link, tokVars, requests, siteVars, urlPc, upVars, progressCalls,
                 mainFile, thumbnail, fileResponse, thumbnailResponse, fileRecords,
                 orchError>>

\* ------------------------------------------------------ download-URL cache
\* One stored object (fileId) with a thumbnail.  Each step below runs from one
\* await to the next; a Redis command acts in the step that issues it.
expiresIn == 5         \* storeFileUrls(fileId, urls, expiresIn = 3600): seconds, scaled down
TicksPerSecond == 2    \* expiresIn * 1000: clock ticks in one second, scaled down

\* two request handlers, and the updateFile request
Callers == {"a", "b", "u"}

NoUrl == [item |-> "none", by |-> "none", how |-> "none"]

\* The signed URL the remote store returns for item to caller by, on the request
\* path (how = "fg") or in refreshUrlsInBackground (how = "bg"): every fetch
\* yields new URLs.
Url(item, by, how) == [item |-> item, by |-> by, how |-> how]

NoUrls == [fileUrl |-> NoUrl, thumbnailUrl |-> NoUrl]

NoEntry ==
  [present |-> FALSE, fileUrl |-> NoUrl, thumbnailUrl |-> NoUrl, generatedAt |-> 0,
   expiresAt |-> 0, isRefreshing |-> FALSE, ttlEnd |-> 0]

\* { fileUrl: cachedUrls.fileUrl, thumbnailUrl: cachedUrls.thumbnailUrl }
UrlsOf(data) == [fileUrl |-> data.fileUrl, thumbnailUrl |-> data.thumbnailUrl]

\* client.setex(key, seconds, value): the instant Redis drops the key
Setex(seconds) == clock + seconds * TicksPerSecond

\* Math.ceil(a / b) for b > 0
Ceil(a, b) == IF a >= 0 THEN (a + b - 1) \div b ELSE -((-a) \div b)

\* The value storeFileUrls writes when Date.now() is t.
EntryAt(urls, t) ==
  [present |-> TRUE, fileUrl |-> urls.fileUrl, thumbnailUrl |-> urls.thumbnailUrl,
   generatedAt |-> t,
   expiresAt |-> t + expiresIn * TicksPerSecond,
   isRefreshing |-> FALSE,
   ttlEnd |-> t + expiresIn * TicksPerSecond]

\* RedisService.storeFileUrls(fileId, urls): setex(key, expiresIn, data)
storeFileUrls(urls) == EntryAt(urls, clock)

\* markUrlAsRefreshing: the seconds it passes to setex for the data it read
MarkTtl(data) == Ceil(data.expiresAt - clock, TicksPerSecond)

\* markUrlAsRefreshing: the value it writes back
MarkedEntry(data) ==
  [data EXCEPT !.isRefreshing = TRUE, !.ttlEnd = Setex(MarkTtl(data))]

\* Mutant: the age is not looked at.
needsRefresh_IgnoresAge(data, currentTime) ==
  IF ~data.present THEN TRUE ELSE ~data.isRefreshing

\* Mutant: an entry at exactly 80% of its lifetime counts as due.
needsRefresh_NotStrict(data, currentTime) ==
  IF ~data.present
    THEN TRUE
    ELSE LET lifetime == data.expiresAt - data.generatedAt
             age == currentTime - data.generatedAt
         IN  10 * age >= 8 * lifetime /\ ~data.isRefreshing

\* Mutant: the isRefreshing flag is not looked at.
needsRefresh_IgnoresFlag(data, currentTime) ==
  IF ~data.present
    THEN TRUE
    ELSE LET lifetime == data.expiresAt - data.generatedAt
             age == currentTime - data.generatedAt
         IN  10 * age > 8 * lifetime

\* RedisService.needsRefresh on the data its read returned:
\* (age > lifetime * 0.8) && !data.isRefreshing
needsRefresh(data, currentTime) ==
  IF ~data.present
    THEN TRUE
    ELSE LET lifetime == data.expiresAt - data.generatedAt
             age == currentTime - data.generatedAt
         IN  10 * age > 8 * lifetime /\ ~data.isRefreshing

\* A getFileUrls call that was not made.  seen1, at1, seen2, at2 record what its
\* two needsRefresh checks read and when; checks counts them; fetched says that
\* it awaited a fetch; caught is what its catch block read; afterUpdate says
\* whether updateFile had responded when the call was made.
NoCall ==
  [pc |-> "idle", thumbnailId |-> "none", cachedUrls |-> NoEntry, checks |-> 0,
   seen1 |-> NoEntry, at1 |-> 0, seen2 |-> NoEntry, at2 |-> 0,
   fetched |-> FALSE, caught |-> NoEntry, result |-> NoUrls, endedAt |-> 0,
   afterUpdate |-> FALSE]

NoRefresh == [pc |-> "none", data |-> NoEntry, outcome |-> "none"]

Ended(c) == gfu[c].pc \in {"returned", "threw"}

\* updateFile has sent its response with the URLs of the new thumbnail.
Responded == updPc = "urls" /\ gfu["u"].pc = "returned"

\* getFileUrls(fileId, thumbnailId) is called:
\* const cachedUrls = await redisService.getFileUrls(fileId); without an entry
\* the fetch of new URLs begins.
StartGetFileUrls(c, thumb) ==
  /\ gfu[c].pc = "idle"
  /\ LET call == [NoCall EXCEPT !.thumbnailId = thumb, !.afterUpdate = Responded]
     IN  gfu' = [gfu EXCEPT ![c] =
                   IF urlCache.present
                     THEN [call EXCEPT !.pc = "check1", !.cachedUrls = urlCache]
                     ELSE [call EXCEPT !.pc = "fetch", !.fetched = TRUE]]

\* return { fileUrl, thumbnailUrl }
Return(call, urls) == [call EXCEPT !.pc = "returned", !.result = urls, !.endedAt = clock]

otherThanCache == <<link, tokVars, requests, siteVars, urlPc, upVars, progressCalls, emitted,
                    orchVars, wsVars>>

\* A request handler read the File document and calls getFileUrls.  The two
\* handlers are alike: "a" names the one that calls first.
CallGetFileUrls(c) ==
  /\ c \in {"a", "b"}
  /\ c = "b" => gfu["a"].pc # "idle"
  /\ StartGetFileUrls(c, thumbnailId)
  /\ UNCHANGED <<clock, urlCache, thumbnailId, refresh, updPc>>
  /\ UNCHANGED otherThanCache

\* if (cachedUrls && !await redisService.needsRefresh(fileId)) return cached
GfuCheck1(c) ==
  /\ gfu[c].pc = "check1"
  /\ LET seen == [gfu[c] EXCEPT !.checks = 1, !.seen1 = urlCache, !.at1 = clock]
     IN  gfu' = [gfu EXCEPT ![c] =
                   IF ~needsRefresh(urlCache, clock)
                     THEN Return(seen, UrlsOf(seen.cachedUrls))
                     ELSE [seen EXCEPT !.pc = "check2"]]
  /\ UNCHANGED <<clock, urlCache, thumbnailId, refresh, updPc>>
  /\ UNCHANGED otherThanCache

\* if (cachedUrls && await redisService.needsRefresh(fileId)) {
\*   this.refreshUrlsInBackground(fileId, thumbnailId); return cached }
\* otherwise the fetch of new URLs begins
GfuCheck2(c) ==
  /\ gfu[c].pc = "check2"
  /\ LET seen == [gfu[c] EXCEPT !.checks = 2, !.seen2 = urlCache, !.at2 = clock]
     IN  IF needsRefresh(urlCache, clock)
           THEN /\ gfu' = [gfu EXCEPT ![c] = Return(seen, UrlsOf(seen.cachedUrls))]
                /\ refresh' = [refresh EXCEPT ![c] = [NoRefresh EXCEPT !.pc = "mark"]]
           ELSE /\ gfu' = [gfu EXCEPT ![c] = [seen EXCEPT !.pc = "fetch", !.fetched = TRUE]]
                /\ UNCHANGED refresh
  /\ UNCHANGED <<clock, urlCache, thumbnailId, updPc>>
  /\ UNCHANGED otherThanCache

\* getSiteAndDriveInfo and the two getDownloadUrl calls settle; on success
\* storeFileUrls writes the entry and the call returns the new URLs.
GfuFetchSettles(c) ==
  /\ gfu[c].pc = "fetch"
  /\ \/ LET urls == [fileUrl |-> Url("file", c, "fg"),
                     thumbnailUrl |-> Url(gfu[c].thumbnailId, c, "fg")]
        IN  /\ urlCache' = storeFileUrls(urls)
            /\ gfu' = [gfu EXCEPT ![c] = Return(@, urls)]
     \/ /\ gfu' = [gfu EXCEPT ![c].pc = "catch"]
        /\ UNCHANGED urlCache
  /\ UNCHANGED <<clock, thumbnailId, refresh, updPc>>
  /\ UNCHANGED otherThanCache

\* Mutant: the catch block rethrows without looking at the cache.
CatchOutcome_AlwaysThrows(call, data) ==
  [call EXCEPT !.pc = "threw", !.caught = data, !.endedAt = clock]

\* catch (error): const cachedUrls = await redisService.getFileUrls(fileId);
\* if (cachedUrls) return them; throw error
CatchOutcome(call, data) ==
  IF data.present
    THEN [Return(call, UrlsOf(data)) EXCEPT !.caught = data]
    ELSE [call EXCEPT !.pc = "threw", !.caught = data, !.endedAt = clock]

GfuCatch(c) ==
  /\ gfu[c].pc = "catch"
  /\ gfu' = [gfu EXCEPT ![c] = CatchOutcome(@, urlCache)]
  /\ UNCHANGED <<clock, urlCache, thumbnailId, refresh, updPc>>
  /\ UNCHANGED otherThanCache

\* refreshUrlsInBackground, markUrlAsRefreshing: const data = await getFileUrls(fileId);
\* if (!data) return false, and the refresh ends
RefreshMarkReads(c) ==
  /\ refresh[c].pc = "mark"
  /\ refresh' = [refresh EXCEPT ![c] =
                   IF urlCache.present
                     THEN [@ EXCEPT !.pc = "write", !.data = urlCache]
                     ELSE [@ EXCEPT !.pc = "done", !.outcome = "unmarked"]]
  /\ UNCHANGED <<clock, urlCache, thumbnailId, gfu, updPc>>
  /\ UNCHANGED otherThanCache

\* markUrlAsRefreshing: data.isRefreshing = true; setex(key, ceil(remaining), data).
\* Redis rejects an expire time that is not positive; the error ends the refresh
\* in its catch block.  Otherwise the fetch begins.
RefreshMarkWrites(c) ==
  /\ refresh[c].pc = "write"
  /\ IF MarkTtl(refresh[c].data) <= 0
       THEN /\ refresh' = [refresh EXCEPT ![c].pc = "done", ![c].outcome = "rejected"]
            /\ UNCHANGED urlCache
       ELSE /\ urlCache' = MarkedEntry(refresh[c].data)
            /\ refresh' = [refresh EXCEPT ![c].pc = "fetch"]
  /\ UNCHANGED <<clock, thumbnailId, gfu, updPc>>
  /\ UNCHANGED otherThanCache

\* The background fetch settles: storeFileUrls on success, console.error on failure.
RefreshFetchSettles(c) ==
  /\ refresh[c].pc = "fetch"
  /\ \/ /\ urlCache' = storeFileUrls([fileUrl |-> Url("file", c, "bg"),
                                      thumbnailUrl |-> Url(gfu[c].thumbnailId, c, "bg")])
        /\ refresh' = [refresh EXCEPT ![c].pc = "done", ![c].outcome = "stored"]
     \/ /\ refresh' = [refresh EXCEPT ![c].pc = "done", ![c].outcome = "failed"]
        /\ UNCHANGED urlCache
  /\ UNCHANGED <<clock, thumbnailId, gfu, updPc>>
  /\ UNCHANGED otherThanCache

\* RedisService.invalidateFileUrlsCache(fileId): client.del(key)
invalidateFileUrlsCache == urlCache' = NoEntry

\* updateFile was requested with a new thumbnail and its upload settles.  On
\* success file.sharePointThumbnailId is set in memory and the file's cache key
\* is deleted (the delete of the thumbnail's own key, which nothing writes,
\* follows); on failure the request answers 500.
UpdUploadSettles ==
  /\ updPc = "idle"
  /\ \/ /\ invalidateFileUrlsCache
        /\ updPc' = "save"
     \/ /\ updPc' = "failed"
        /\ UNCHANGED urlCache
  /\ UNCHANGED <<clock, thumbnailId, gfu, refresh>>
  /\ UNCHANGED otherThanCache

\* const updatedFile = await file.save()
UpdSave ==
  /\ updPc = "save"
  /\ thumbnailId' = "new"
  /\ updPc' = "invalidate"
  /\ UNCHANGED <<clock, urlCache, gfu, refresh>>
  /\ UNCHANGED otherThanCache

\* "Make sure cache is invalidated before generating fresh URLs"
UpdInvalidate ==
  /\ updPc = "invalidate"
  /\ invalidateFileUrlsCache
  /\ updPc' = "getUrls"
  /\ UNCHANGED <<clock, thumbnailId, gfu, refresh>>
  /\ UNCHANGED otherThanCache

\* sharePointService.getFileUrls(file.sharePointFileId, file.sharePointThumbnailId);
\* the response follows its return (res.json) or its error (status 500).
UpdGetFileUrls ==
  /\ updPc = "getUrls"
  /\ StartGetFileUrls("u", "new")
  /\ updPc' = "urls"
  /\ UNCHANGED <<clock, urlCache, thumbnailId, refresh>>
  /\ UNCHANGED otherThanCache

\* Time passes while an entry is cached; Redis drops the key when its time to
\* live is over.
CacheTick ==
  /\ clock < MaxClock
  /\ urlCache.present
  /\ clock' = clock + 1
  /\ urlCache' = IF urlCache.ttlEnd <= clock + 1 THEN NoEntry ELSE urlCache
  /\ UNCHANGED <<thumbnailId, gfu, refresh, updPc>>
  /\ UNCHANGED otherThanCache

\* ------------------------------------------------------------ specification
Idle ==
  /\ now = 0
  /\ tokPc = "idle" /\ tokOwner = "none" /\ tokCall = 0
  /\ tokFirst = NoToken /\ tokCheck = NoCheck /\ tokResult = NoToken
  /\ requests = <<>>
  /\ sitePc = "idle" /\ siteOwner = "none" /\ siteToken = NoToken /\ siteError = ""
  /\ urlPc = "idle"
  /\ upPc = "idle" /\ upOwner = "none" /\ upFile = NoFile /\ upToken = NoToken
  /\ upCb = FALSE /\ uploadedBytes = 0 /\ upResult = 0 /\ upError = ""
  /\ progressCalls = <<>>
  /\ emitted = <<>>
  /\ orchPc = "idle" /\ mainFile = NoFile /\ thumbnail = NoFile
  /\ tmpFiles = {} /\ unlinked = {}
  /\ fileResponse = 0 /\ thumbnailResponse = 0 /\ fileRecords = 0 /\ orchError = ""

CacheIdle ==
  /\ clock = 0
  /\ urlCache = NoEntry
  /\ thumbnailId = "old"
  /\ gfu = [c \in Callers |-> NoCall]
  /\ refresh = [c \in Callers |-> NoRefresh]
  /\ updPc = "idle"

NotifyIdle ==
  /\ uploadConnections = [id \in UploadIds |-> "none"]
  /\ readyState = [w \in Sockets |-> CONNECTING]
  /\ wire = [w \in Sockets |-> <<>>]
  /\ sends = <<>>
  /\ registered = [id \in UploadIds |-> "none"]

\* The credential MSAL holds when a call starts: none, or one issued earlier,
\* of any expiry, whose payload may not parse.
Init ==
  /\ link \in {"p006", "p007"}
  /\ msalCache \in {NoToken} \cup {Jwt(e, FALSE, r, 0) : e \in 1..MaxExp, r \in BOOLEAN}
  /\ Idle
  /\ CacheIdle
  /\ NotifyIdle

EnsureValidTokenSteps ==
  \/ GetAccessTokenSettles
  \/ ForcedRefreshSettles
  \/ CatchRefreshSettles

GetSiteAndDriveInfoSteps ==
  \/ SiteTokenSettled
  \/ SiteSettles
  \/ DrivesSettles

UploadFileSteps ==
  \/ UploadTokenSettled
  \/ SimplePutSettles
  \/ SessionSettles
  \/ ChunkSettles

\* The operations that ask for a token, each called on its own.
NextToken ==
  \/ CallEnsureValidToken
  \/ CallGetSiteAndDriveInfo
  \/ CallGetDownloadUrl
  \/ UrlTokenSettled
  \/ ItemSettles
  \/ EnsureValidTokenSteps
  \/ GetSiteAndDriveInfoSteps
  \/ Tick

SpecToken == Init /\ [][NextToken]_vars

\* The upload engine, called by a controller.
NextEngine ==
  \/ CallUploadFile
  \/ UploadFileSteps
  \/ EnsureValidTokenSteps
  \/ Tick

\* Every pending request is answered in the end.
SpecEngineLive == Init /\ [][NextEngine]_vars /\ WF_vars(NextEngine)

SpecEngine == Init /\ [][NextEngine]_vars

\* The steps of a processUpload run after its start.
RunSteps ==
  \/ OrchSiteSettled
  \/ OrchMainSettled
  \/ OrchThumbSettled
  \/ OrchCreateSettles
  \/ OrchUrlsSettle
  \/ OrchCatch
  \/ GetSiteAndDriveInfoSteps
  \/ UploadFileSteps
  \/ EnsureValidTokenSteps

\* One processUpload run.
NextProcess == StartProcessUpload \/ RunSteps

InitProcess ==
  /\ link \in {"p006", "p007"}
  /\ msalCache \in {NoToken, Jwt(MaxExp, FALSE, TRUE, 0), Jwt(FiveMinutes, FALSE, TRUE, 0),
                     Jwt(1, FALSE, FALSE, 0)}
  /\ Idle
  /\ CacheIdle
  /\ NotifyIdle

SpecProcess == InitProcess /\ [][NextProcess]_vars

\* One processUpload run and the client's notification connection, which is
\* opened, registered for the upload and closed at any moment.
ConnectionSteps ==
  \/ OnConnection("ws1")
  \/ storeUploadConnection(uploadData.uploadId, "ws1")
  \/ BeginClose("ws1")
  \/ OnClose("ws1")

\* The uploads watched: a main file that takes the single PUT or the largest
\* one, kept in a temporary file, with or without a small thumbnail.
WatchedUpload ==
  /\ mainFile.size \in {1, MaxFileSize} /\ mainFile.path
  /\ thumbnail.size \in {0, 1} /\ thumbnail.path = (thumbnail # NoFile)

WatchedRun == (StartProcessUpload /\ WatchedUpload') \/ RunSteps

NextUpload == WatchedRun \/ ConnectionSteps

InitUpload ==
  /\ link \in {"p006", "p007"}
  /\ msalCache = Jwt(FiveMinutes, FALSE, TRUE, 0)
  /\ Idle
  /\ CacheIdle
  /\ NotifyIdle

\* Every awaited call of the run settles in the end.
SpecUploadLive == InitUpload /\ [][NextUpload]_vars /\ WF_vars(WatchedRun)

\* The download-URL cache of one stored object: two request handlers and one
\* updateFile request.  getFileUrls exists in src/unnamed/part_006 only.  The
\* cache is empty at first, or holds the entry an earlier call stored
\* FirstClock ticks ago.
InitCache ==
  /\ link = "p006"
  /\ msalCache = NoToken
  /\ Idle
  /\ NotifyIdle
  /\ clock = FirstClock
  /\ urlCache \in {NoEntry,
                    EntryAt([fileUrl |-> Url("file", "earlier", "fg"),
                             thumbnailUrl |-> Url("old", "earlier", "fg")], 0)}
  /\ thumbnailId = "old"
  /\ gfu = [c \in Callers |-> NoCall]
  /\ refresh = [c \in Callers |-> NoRefresh]
  /\ updPc = "idle"

GetFileUrlsSteps(c) ==
  \/ GfuCheck1(c)
  \/ GfuCheck2(c)
  \/ GfuFetchSettles(c)
  \/ GfuCatch(c)

RefreshSteps(c) ==
  \/ RefreshMarkReads(c)
  \/ RefreshMarkWrites(c)
  \/ RefreshFetchSettles(c)

UpdateFileSteps ==
  \/ UpdUploadSettles
  \/ UpdSave
  \/ UpdInvalidate
  \/ UpdGetFileUrls

NextCache ==
  \/ \E c \in Callers : CallGetFileUrls(c) \/ GetFileUrlsSteps(c) \/ RefreshSteps(c)
  \/ UpdateFileSteps
  \/ CacheTick

SpecCache == InitCache /\ [][NextCache]_vars

\* The registry of notification connections, used by any caller for one upload.
NextNotify ==
  \/ \E w \in Sockets : OnConnection(w) \/ BeginClose(w) \/ OnClose(w)
  \/ \E id \in {uploadData.uploadId}, w \in Sockets : storeUploadConnection(id, w)
  \/ \E id \in {uploadData.uploadId} :
       sendUploadProgress(id) \/ sendUploadComplete(id) \/ sendUploadError(id)

InitNotify ==
  /\ link = "p006"
  /\ msalCache = NoToken
  /\ Idle
  /\ CacheIdle
  /\ NotifyIdle

SpecNotify == InitNotify /\ [][NextNotify]_vars

\* The registry used for two uploads at once.  The names are interchangeable:
\* ws1 is the client that connects first, up1 the upload that registers first.
Joined(id) == id = "up1" \/ registered["up1"] # "none"

NextRegistry ==
  \/ \E w \in Sockets :
       \/ (w = "ws1" \/ readyState["ws1"] # CONNECTING) /\ OnConnection(w)
       \/ BeginClose(w)
       \/ OnClose(w)
  \/ \E id \in UploadIds, w \in Sockets : Joined(id) /\ storeUploadConnection(id, w)
  \/ \E id \in UploadIds :
       /\ Joined(id)
       /\ Len(sends) < MaxRouted
       /\ sendUploadProgress(id) \/ sendUploadComplete(id) \/ sendUploadError(id)

SpecRegistry == InitNotify /\ [][NextRegistry]_vars

\* ================================================================== claims
IsChunk(r) == r.op = "chunk"
IsPut(r) == r.op = "put"
IsSession(r) == r.op = "session"
IsPending(r) == r.status = "pending"

Chunks == SelectSeq(requests, IsChunk)

RECURSIVE SumLengths(_)
SumLengths(seq) ==
  IF seq = <<>> THEN 0
  ELSE (Head(seq).last - Head(seq).first + 1) + SumLengths(Tail(seq))

\* The call went down largeFileUpload with a file of 4 MiB or more.
LargeUpload == upFile.buffer /\ upFile.size >= 4 /\ upPc \in {"session", "chunk", "returned", "threw"}

\* The call went down simpleUpload with a file below 4 MiB.
SmallUpload == upFile.buffer /\ upFile.size < 4 /\ upPc \in {"simplePut", "returned", "threw"}

\* ---- C1
\* C1: the chunk PUTs of a large upload are contiguous at every moment (the
\* first range starts at byte 0, each later one at the previous end + 1, every
\* range but the last is 4 MiB long, the total is the file size), and when the
\* upload has returned there are ceil(s / 4 MiB) of them, the last ends at
\* s - 1 and the lengths sum to s.
C1_ChunkBoundaries ==
  LargeUpload =>
    LET s == upFile.size
        n == Len(Chunks)
    IN /\ \A i \in 1..n :
            /\ Chunks[i].total = s
            /\ Chunks[i].first = (IF i = 1 THEN 0 ELSE Chunks[i - 1].last + 1)
            /\ Chunks[i].last <= s - 1
            /\ i < n => Chunks[i].last - Chunks[i].first + 1 = 4
            /\ Chunks[i].last - Chunks[i].first + 1 \in 1..4
       /\ upPc = "returned" =>
            /\ n = (s + 3) \div 4
            /\ Chunks[n].last = s - 1
            /\ SumLengths(Chunks) = s

\* A 9 MiB file has been uploaded in three chunks, the last one shorter.
C1_Witness ==
  /\ LargeUpload /\ upPc = "returned"
  /\ upFile.size = 9
  /\ Len(Chunks) = 3
  /\ Chunks[3].first = 8 /\ Chunks[3].last = 8

\* ---- C2
\* C2: within one upload at most one chunk PUT is outstanding, a chunk PUT is
\* issued only after every earlier chunk PUT was answered with success, and
\* the start offsets strictly increase in issue order.
C2_SequentialChunks ==
  LET n == Len(Chunks)
  IN /\ Cardinality({i \in 1..n : IsPending(Chunks[i])}) <= 1
     /\ \A i \in 1..n, j \in 1..n :
          i < j => Chunks[i].status = "ok" /\ Chunks[i].first < Chunks[j].first

\* The second chunk is outstanding and the first was accepted.
C2_Witness ==
  /\ upPc = "chunk"
  /\ Len(Chunks) = 2
  /\ Chunks[1].status = "ok"
  /\ IsPending(Chunks[2])

\* ---- C3
\* v is x / y * 100 rounded to the nearest integer
Nearest(v, x, y) == 2 * (100 * x - v * y) <= y /\ 2 * (v * y - 100 * x) <= y

\* C3: the values a large upload passes to onProgress never decrease, lie in
\* 0..100, the value after the k-th chunk is round(bytesTransferred /
\* totalBytes * 100), and the last value of a successful upload is 100.
C3_ProgressMonotone ==
  (LargeUpload /\ upCb) =>
    LET p == progressCalls
        acked == SelectSeq(Chunks, LAMBDA r : r.status = "ok")
    IN /\ \A i \in 1..Len(p) : p[i] \in 0..100
       /\ \A i \in 1..Len(p) - 1 : p[i] <= p[i + 1]
       /\ Len(p) = (IF Len(requests) > 0 /\ requests[1].status = "ok" THEN Len(acked) + 1 ELSE 0)
       /\ \A k \in 1..Len(acked) :
            k + 1 <= Len(p) => Nearest(p[k + 1], acked[k].last + 1, upFile.size)
       /\ upPc = "returned" => Len(p) > 0 /\ p[Len(p)] = 100

\* A 9 MiB file was uploaded with a callback: 0, 44, 89, 100.
C3_Witness ==
  /\ LargeUpload /\ upCb /\ upPc = "returned"
  /\ progressCalls = <<0, 44, 89, 100>>

\* ---- C4
\* C4: an upload of a file below 4 MiB issues exactly one PUT carrying the
\* whole payload and no upload-session request; with a callback it reports 0
\* before the PUT, and 100 only once the PUT has succeeded.
C4_SimpleUpload ==
  (SmallUpload /\ (upPc = "threw" => Len(requests) > 0)) =>
    /\ Len(requests) = 1
    /\ IsPut(requests[1])
    /\ requests[1].first = 0
    /\ requests[1].last = upFile.size - 1
    /\ requests[1].total = upFile.size
    /\ progressCalls =
         (IF ~upCb THEN <<>>
          ELSE IF requests[1].status = "ok" THEN <<0, 100>> ELSE <<0>>)
    /\ upPc = "returned" <=> requests[1].status = "ok"

\* A 3 MiB file's single PUT has failed after 0 was reported.
C4_Witness ==
  /\ SmallUpload /\ upCb /\ upFile.size = 3
  /\ upPc = "threw"
  /\ Len(requests) = 1 /\ requests[1].status = "fail"
  /\ progressCalls = <<0>>

\* ---- C5
ProgressValues(events) ==
  LET ps == SelectSeq(events, LAMBDA e : e.type = "progress")
  IN [i \in 1..Len(ps) |-> ps[i].v]

\* C5: a processUpload run whose main file is below 4 MiB and was uploaded
\* successfully has emitted exactly two progress events, 0 and then 100.
C5_TwoProgressEvents ==
  (orchPc \in {"done", "failed"} /\ mainFile.size < 4 /\ fileResponse # 0) =>
    ProgressValues(emitted) = <<0, 100>>

\* ---- C6
\* C6: the first request of an upload is the upload-session POST exactly when
\* the file's size is 4 MiB or more, and the single PUT exactly when it is
\* strictly less.
C6_StrictBoundary ==
  (upFile.buffer /\ Len(requests) > 0) =>
    /\ IsSession(requests[1]) <=> upFile.size >= 4
    /\ IsPut(requests[1]) <=> upFile.size < 4

\* A file of exactly 4 MiB went through an upload session, in one chunk.
C6_Witness ==
  /\ upFile.size = 4
  /\ upPc = "returned"
  /\ Len(requests) = 2
  /\ IsSession(requests[1])
  /\ IsChunk(requests[2]) /\ requests[2].first = 0 /\ requests[2].last = 3

\* ---- C7
DefaultTexts ==
  {"Failed to upload file", "Failed to create upload session", "Failed to upload file chunk"}

\* C7: a request answered with a non-success status is the last request of the
\* upload, the engine has thrown an Error whose message is the remote message
\* (the fixed text when the remote gave none), and onProgress was called only
\* for what had succeeded before.
C7_FailureStops ==
  \A i \in 1..Len(requests) :
    requests[i].status = "fail" =>
      /\ i = Len(requests)
      /\ upPc = "threw"
      /\ upError = (IF requests[i].msg # "" THEN requests[i].msg ELSE upError)
      /\ upError \in DefaultTexts \cup {requests[i].msg}
      /\ upError # ""
      /\ Len(progressCalls) =
           (IF ~upCb \/ IsSession(requests[i]) THEN 0
            ELSE IF IsPut(requests[i]) THEN 1
            ELSE 1 + Cardinality({j \in 1..Len(Chunks) : Chunks[j].status = "ok"}))

\* The second chunk of a 9 MiB file was rejected with a remote message.
C7_Witness ==
  /\ upPc = "threw" /\ upCb
  /\ upFile.size = 9
  /\ Len(Chunks) = 2 /\ Chunks[2].status = "fail"
  /\ upError = "remote says no"
  /\ progressCalls = <<0, 44>>

\* ---- C8
\* C8: a large upload whose requests are all answered ends; it throws only
\* when a request was refused, and when it returns every byte has been sent
\* and the value returned is the body of the response to the last chunk's PUT.
C8_ReturnsFinalBody ==
  /\ [](LargeUpload /\ upPc = "returned" =>
          /\ uploadedBytes = upFile.size
          /\ \A i \in 1..Len(requests) : requests[i].status = "ok"
          /\ upResult = Len(requests)
          /\ IsChunk(requests[upResult])
          /\ requests[upResult].last = upFile.size - 1)
  /\ [](LargeUpload /\ upPc = "threw" =>
          IF Len(requests) = 0 THEN upError = AcquireFailed
          ELSE requests[Len(requests)].status = "fail")
  /\ (upPc \in {"session", "chunk"}) ~> (upPc \in {"returned", "threw"})

\* A 9 MiB file's upload returned the body of its third chunk's response.
C8_Witness ==
  /\ LargeUpload /\ upPc = "returned"
  /\ upFile.size = 9
  /\ Len(requests) = 4
  /\ upResult = 4

\* ---- C9
\* C9: ensureValidToken returns the token of its unforced getAccessToken() only
\* when, at its check, now + 5 minutes < the token's expiry; when that token
\* is missing, cannot be read, or now + 5 minutes >= its expiry, what it
\* returns comes from a forced refresh made during the same call.
C9_TokenMargin ==
  tokPc = "returned" =>
    /\ ~tokResult.forced =>
         /\ tokResult = tokFirst
         /\ tokCheck.done
         /\ tokCheck.at + 5 < tokResult.exp
    /\ (tokFirst.kind = "none" \/ ~tokFirst.readable \/ tokCheck.at + 5 >= tokFirst.exp) =>
         /\ tokResult.kind = "jwt"
         /\ tokResult.forced
         /\ tokResult.call = tokCall

\* A token expiring in exactly five minutes was replaced by a forced refresh.
C9_Witness ==
  /\ tokPc = "returned"
  /\ tokFirst.kind = "jwt" /\ tokFirst.readable
  /\ tokCheck.done
  /\ tokCheck.at + 5 = tokFirst.exp
  /\ tokResult.forced

\* ---- C10
\* C10: every request sent to the remote store with an Authorization header
\* carries a token that was acquired, and an operation whose token
\* acquisition failed has sent no request.
C10_NoRequestWithoutToken ==
  /\ \A i \in 1..Len(requests) :
       requests[i].bearer => requests[i].auth.kind = "jwt"
  /\ (sitePc = "threw" /\ siteError = AcquireFailed) =>
       \A i \in 1..Len(requests) : requests[i].owner # "site"
  /\ (upPc = "threw" /\ upError = AcquireFailed) =>
       \A i \in 1..Len(requests) : requests[i].owner # upOwner

\* ---------------------------------------------------- download-URL cache
Handlers == {"a", "b"}

\* The age a needsRefresh check saw, against 80% of the lifetime of the entry it read.
Below80(data, at) == 10 * (at - data.generatedAt) < 8 * (data.expiresAt - data.generatedAt)
At80(data, at) == 10 * (at - data.generatedAt) = 8 * (data.expiresAt - data.generatedAt)
Past80(data, at) == 10 * (at - data.generatedAt) > 8 * (data.expiresAt - data.generatedAt)

\* The fetches from the remote store begun so far: by calls, by background refreshes.
CallFetches == {c \in Callers : gfu[c].fetched}
RefreshFetches == {c \in Callers : refresh[c].pc = "fetch" \/ refresh[c].outcome \in {"stored", "failed"}}

\* c1 found no entry, fetched and returned; c2 was made next, with nothing else
\* running, and its first check ran before 80% of the entry's lifetime.
TwoSuccessiveCalls(c1, c2) ==
  /\ c1 # c2
  /\ updPc = "idle"
  /\ ~gfu[c1].cachedUrls.present /\ gfu[c1].pc = "returned" /\ ~gfu[c1].caught.present
  /\ gfu[c2].cachedUrls.present /\ gfu[c2].cachedUrls.fileUrl = gfu[c1].result.fileUrl
  /\ gfu[c2].checks >= 1
  /\ Below80(gfu[c2].seen1, gfu[c2].at1)

\* C11: from an empty cache, two successive getFileUrls calls, the second made
\* before 80% of the entry's lifetime has passed, cause exactly one fetch, and
\* the second returns the URLs of the first without a fetch or a refresh.
C11_OneFetchForTwoCalls ==
  \A c1 \in Handlers, c2 \in Handlers :
    TwoSuccessiveCalls(c1, c2) =>
      /\ gfu[c2].pc = "returned"
      /\ gfu[c2].result = gfu[c1].result
      /\ ~gfu[c2].fetched
      /\ refresh[c2].pc = "none"
      /\ Cardinality(CallFetches) + Cardinality(RefreshFetches) = 1

C11_Witness ==
  /\ TwoSuccessiveCalls("a", "b")
  /\ gfu["b"].pc = "returned"
  /\ gfu["b"].result.fileUrl = Url("file", "a", "fg")
  /\ clock > gfu["a"].endedAt

\* A needsRefresh check of call c read a live entry, not being refreshed, past
\* 80% of its lifetime and before its expiry.
DueAt(data, at) == data.present /\ ~data.isRefreshing /\ Past80(data, at) /\ at < data.expiresAt

\* The same, with exactly 80% counted as due.
DueFrom80(data, at) ==
  data.present /\ ~data.isRefreshing /\ ~Below80(data, at) /\ at < data.expiresAt

ServedCachedAndRefreshing(c) ==
  /\ gfu[c].pc = "returned"
  /\ gfu[c].result = UrlsOf(gfu[c].cachedUrls)
  /\ ~gfu[c].fetched
  /\ refresh[c].pc # "none"

\* A refresh that stores writes an entry with a new window and the flag cleared.
StoreOpensNewWindow(c) ==
  (refresh[c].outcome # "stored" /\ refresh'[c].outcome = "stored") =>
    /\ urlCache'.present
    /\ urlCache'.fileUrl = Url("file", c, "bg")
    /\ urlCache'.generatedAt = clock'
    /\ urlCache'.expiresAt = clock' + expiresIn * TicksPerSecond
    /\ ~urlCache'.isRefreshing

\* C12 as stated: a call made at an age >= 80% (exactly 80% included) and
\* < 100% of the lifetime, with isRefreshing false, returns the old URLs and
\* starts a background refresh.
C12_RefreshFromEighty ==
  \A c \in Callers :
    (Ended(c) /\ gfu[c].checks >= 1 /\ DueFrom80(gfu[c].seen1, gfu[c].at1)
       /\ (gfu[c].checks = 2 => DueFrom80(gfu[c].seen2, gfu[c].at2)))
      => ServedCachedAndRefreshing(c)

\* C12 as amended: a call whose two needsRefresh checks both find the entry
\* strictly past 80% and before 100% of its lifetime with isRefreshing false
\* returns the old cached URLs and starts one background refresh; the refresh
\* fetches only after marking an entry it found, and when it stores, the entry
\* has a new generatedAt/expiresAt window and isRefreshing = false.  A call
\* whose first check finds the entry at 80% or less returns the cached URLs and
\* starts no refresh.
C12_RefreshPastEighty ==
  /\ [](\A c \in Callers :
          /\ (gfu[c].checks = 2 /\ DueAt(gfu[c].seen1, gfu[c].at1)
                 /\ DueAt(gfu[c].seen2, gfu[c].at2))
               => ServedCachedAndRefreshing(c)
          /\ (gfu[c].checks >= 1 /\ gfu[c].seen1.present
                 /\ ~Past80(gfu[c].seen1, gfu[c].at1))
               => /\ gfu[c].pc = "returned"
                  /\ gfu[c].result = UrlsOf(gfu[c].cachedUrls)
                  /\ ~gfu[c].fetched
                  /\ refresh[c].pc = "none"
          /\ refresh[c].pc = "fetch" => refresh[c].data.present)
  /\ [][\A c \in Callers : StoreOpensNewWindow(c)]_vars

C12_Witness ==
  \E c \in Callers :
    /\ gfu[c].checks = 2
    /\ DueAt(gfu[c].seen1, gfu[c].at1)
    /\ DueAt(gfu[c].seen2, gfu[c].at2)
    /\ gfu[c].result.fileUrl = Url("file", "earlier", "fg")
    /\ refresh[c].outcome = "stored"
    /\ urlCache.fileUrl = Url("file", c, "bg")
    /\ urlCache.generatedAt > 0

InFlight == {c \in Callers : refresh[c].pc = "fetch"}

\* C13 as stated: under any interleaving at most one background refresh of the
\* object is fetching at any time.
C13_OneRefreshInFlight == Cardinality(InFlight) <= 1

\* C13 as amended: the flag is advisory.  A call whose needsRefresh check reads
\* isRefreshing = true starts no background refresh, and a refresh fetches only
\* after it has written the flag; calls whose checks run before the flag is
\* written may each start a refresh.
C13_FlagStopsLaterCalls ==
  \A c \in Callers :
    /\ refresh[c].pc # "none" =>
         /\ gfu[c].checks = 2
         /\ ~gfu[c].seen1.isRefreshing
         /\ ~gfu[c].seen2.isRefreshing
    /\ (gfu[c].checks >= 1 /\ gfu[c].seen1.isRefreshing) =>
         /\ refresh[c].pc = "none"
         /\ gfu[c].pc = "returned"
         /\ ~gfu[c].fetched
    /\ (refresh[c].pc = "fetch" /\ urlCache.present
          /\ urlCache.generatedAt = refresh[c].data.generatedAt
          /\ urlCache.fileUrl = refresh[c].data.fileUrl)
         => urlCache.isRefreshing

C13_Witness ==
  \E c \in Callers, d \in Callers :
    /\ refresh[d].pc = "fetch"
    /\ gfu[c].checks = 1
    /\ gfu[c].seen1.isRefreshing
    /\ Past80(gfu[c].seen1, gfu[c].at1)
    /\ gfu[c].pc = "returned"
    /\ refresh[c].pc = "none"

\* Call c read an entry that had not expired (its first check, later, still ran
\* before the entry's expiresAt).
ReadLiveEntry(c) ==
  /\ gfu[c].cachedUrls.present
  /\ gfu[c].checks >= 1
  /\ gfu[c].at1 < gfu[c].cachedUrls.expiresAt

\* C14: a getFileUrls call that read an existing, unexpired entry returns that
\* entry's URLs and never awaits a fetch, under every interleaving.
C14_NeverBlocksOnFetch ==
  \A c \in Callers :
    ReadLiveEntry(c) =>
      /\ ~gfu[c].fetched
      /\ Ended(c) => gfu[c].pc = "returned" /\ gfu[c].result = UrlsOf(gfu[c].cachedUrls)

\* No fetch has failed so far, on the request path or in a background refresh.
NoFetchError ==
  \A d \in Callers :
    /\ gfu[d].pc \notin {"catch", "threw"}
    /\ ~gfu[d].caught.present
    /\ refresh[d].outcome # "failed"

\* Call c returned URLs it took from the cache.
ServedFromCache(c) ==
  gfu[c].pc = "returned" /\ ~gfu[c].fetched /\ gfu[c].cachedUrls.present

\* C15: when no fetch error occurs, no entry is readable at or after its own
\* expiresAt, and getFileUrls never returns URLs of an entry whose expiresAt
\* is <= now.
C15_NeverServesExpired ==
  NoFetchError =>
    /\ urlCache.present => clock < urlCache.expiresAt
    /\ \A c \in Callers :
         ServedFromCache(c) => gfu[c].endedAt < gfu[c].cachedUrls.expiresAt

\* The catch block of call c runs in this step.
CatchRuns(c) == gfu[c].pc = "catch" /\ gfu'[c].pc # "catch"

\* C16: when the fetch of new URLs fails, getFileUrls returns the URLs of the
\* entry that exists at that moment, and throws only when there is none.
C16_FallbackOnFetchError ==
  /\ [][\A c \in Callers :
          CatchRuns(c) =>
            IF urlCache.present
              THEN gfu'[c].pc = "returned" /\ gfu'[c].result = UrlsOf(urlCache)
              ELSE gfu'[c].pc = "threw" /\ gfu'[c].result = NoUrls]_vars
  /\ [](\A c \in Callers : gfu[c].pc \in {"catch", "threw"} => gfu[c].fetched)

C16_Witness ==
  \E c \in Callers :
    /\ gfu[c].fetched
    /\ gfu[c].pc = "returned"
    /\ gfu[c].caught.present
    /\ gfu[c].result = UrlsOf(gfu[c].caught)
    /\ gfu[c].result.fileUrl.by # c

\* C17: once updateFile has replaced the thumbnail and responded, every
\* getFileUrls call made later returns the new thumbnail's URL, whatever calls
\* and refreshes were in flight when the update ran.
C17_NoStaleThumbnailAfterUpdate ==
  \A c \in Callers :
    (gfu[c].afterUpdate /\ gfu[c].pc = "returned") => gfu[c].result.thumbnailUrl.item = "new"

\* ------------------------------------------- progress notification registry
Range(seq) == {seq[i] : i \in 1..Len(seq)}

NoDuplicates(seq) == \A i \in 1..Len(seq), j \in 1..Len(seq) : seq[i] = seq[j] => i = j

\* Event n was emitted while no connection was registered or while the
\* registered one was not open.
Dropped(n) == sends[n].ws = "none" \/ sends[n].state # OPEN

\* The connections event n was pushed to.
DeliveredTo(n) == {w \in Sockets : n \in Range(wire[w])}

\* C18: every event is delivered at most once, and only to the connection that
\* was registered and open when it was emitted; an event emitted with no
\* connection registered or with the connection not open is delivered to no
\* one, then or later.
C18_AtMostOnce ==
  /\ [](\A w \in Sockets :
          /\ NoDuplicates(wire[w])
          /\ \A n \in Range(wire[w]) :
               n \in 1..Len(sends) /\ sends[n].ws = w /\ sends[n].state = OPEN)
  /\ [](\A n \in 1..Len(sends) : Dropped(n) => DeliveredTo(n) = {})
  /\ [][\A w \in Sockets :
          \/ wire'[w] = wire[w]
          \/ /\ Len(sends') = Len(sends) + 1
             /\ wire'[w] = Append(wire[w], Len(sends'))]_vars

C18_Witness ==
  /\ Len(sends) = 3
  /\ sends[1].ws = "none"
  /\ sends[2].state = CLOSED
  /\ sends[3].state = OPEN
  /\ DeliveredTo(1) = {} /\ DeliveredTo(2) = {}
  /\ DeliveredTo(3) = {sends[3].ws}

\* C19: when sendUploadComplete or sendUploadError returns, the registry
\* holds no mapping for its uploadId, whether the connection was open or not.
C19_TerminalEventDeregisters ==
  [][\A id \in UploadIds :
       (/\ Len(sends') = Len(sends) + 1
        /\ sends'[Len(sends')].type \in {"complete", "error"}
        /\ sends'[Len(sends')].uploadId = id)
         => uploadConnections'[id] = "none"]_vars

\* C20: no registry entry refers to a connection that has closed.
C20_NoEntryForClosedConnection ==
  \A id \in UploadIds :
    uploadConnections[id] # "none" => readyState[uploadConnections[id]] # CLOSED

\* --------------------------------------------- routing of two uploads' events
\* C21: an event for uploadId u goes only to the connection most recently
\* registered under u (a later registration replaces the earlier one), and
\* never to a connection that is registered under another uploadId only.
C21_OnlyLatestRegistered ==
  [][\A w \in Sockets :
       wire'[w] # wire[w] =>
         /\ Len(sends') = Len(sends) + 1
         /\ w = registered[sends'[Len(sends')].uploadId]
         /\ wire'[w] = Append(wire[w], Len(sends'))
         /\ \A v \in Sockets \ {w} : wire'[v] = wire[v]]_vars

\* A progress event for up1 went to ws1; ws2 was then registered under up1
\* and the next event for up1 went to ws2 only, while ws1 is still open and
\* registered under up2.
C21_Witness ==
  /\ Len(sends) = 2
  /\ sends[1].uploadId = "up1" /\ sends[1].type = "progress" /\ wire["ws1"] = <<1>>
  /\ sends[2].uploadId = "up1" /\ wire["ws2"] = <<2>>
  /\ registered["up1"] = "ws2"
  /\ uploadConnections["up2"] = "ws1" /\ readyState["ws1"] = OPEN

\* ------------------------------------------------ the isRefreshing flag
\* C30: an entry has isRefreshing = true only while a background refresh of
\* the object is in flight; once the refresh has ended, by success or by
\* failure, the entry (if it still exists) has isRefreshing = false.
C30_FlagOnlyWhileRefreshing ==
  (urlCache.present /\ urlCache.isRefreshing) => InFlight # {}

\* --------------------------------------------------- one processUpload run
\* The run has reached one of its two ends.
Terminated == orchPc \in {"done", "failed"}

SentEvent(type) == \E i \in DOMAIN emitted : emitted[i].type = type

\* The requests uploadFile has issued for the main file.
MainRequests == {i \in DOMAIN requests : requests[i].owner = "main"}

\* C25: on any termination, deletion of both temporary files has been
\* attempted, in particular the thumbnail's when the main file was uploaded
\* and cleaned up and the thumbnail's upload then failed.
C25_BothTempFilesAttempted ==
  Terminated =>
    /\ mainFile.path => "main" \in unlinked
    /\ thumbnail.path => "thumb" \in unlinked

\* C27: a zero-length main file is rejected before the engine is invoked: no
\* PUT and no session request is issued for it and no FileRecord is created.
C27_EmptyFileRejected ==
  (orchPc # "idle" /\ mainFile.size = 0) => (MainRequests = {} /\ fileRecords = 0)

\* C29: a run never both persists a FileRecord and emits sendError.
C29_RecordOrErrorNotBoth == ~(fileRecords > 0 /\ SentEvent("error"))

\* The place of a request in the order of the steps, by the call that issued it.
StepRank(owner) ==
  CASE owner = "site" -> 1
    [] owner = "main" -> 2
    [] owner = "thumb" -> 3
    [] OTHER -> 0

RequestsOf(owner) == {i \in DOMAIN requests : requests[i].owner = owner}

\* What holds of the steps taken so far.
StepsSoFarInOrder ==
  /\ \A i, j \in DOMAIN requests :
       i < j => StepRank(requests[i].owner) <= StepRank(requests[j].owner)
  /\ MainRequests # {} => orchPc \notin {"idle", "site"} /\ SentEvent("progress")
  /\ RequestsOf("thumb") # {} => fileResponse # 0 /\ thumbnail # NoFile
  /\ fileRecords > 0 =>
       /\ fileRecords = 1
       /\ fileResponse # 0
       /\ thumbnail # NoFile => thumbnailResponse # 0
       /\ \A i \in DOMAIN requests : requests[i].status = "ok"
  /\ SentEvent("complete") => fileRecords = 1 /\ orchPc = "done"
  /\ orchPc \in {"catch", "failed"} => ~SentEvent("complete")

\* Once a step has failed no later step is executed.
NothingAfterFailure ==
  orchPc \in {"catch", "failed"} =>
    /\ requests' = requests
    /\ fileRecords' = fileRecords
    /\ orchPc' \in {"catch", "failed"}
    /\ ~SentEvent("complete")'

\* C23: a run executes its steps only in the order site resolution, main
\* upload, optional thumbnail upload, FileRecord, URL resolution,
\* sendComplete: the FileRecord is written only after the uploads have
\* succeeded, sendComplete is emitted only after the FileRecord is persisted
\* and the URLs are resolved, and a failure of any step moves the run to
\* Failed without executing any later step.
C23_StepsInOrder == []StepsSoFarInOrder /\ [][NothingAfterFailure]_vars

C23_Witness ==
  /\ orchPc = "done" /\ SentEvent("complete") /\ fileRecords = 1
  /\ thumbnail # NoFile /\ RequestsOf("thumb") # {} /\ MainRequests # {}
  /\ RequestsOf("site") # {}

\* The PUTs of the main file that the remote store rejected.
RejectedMainPuts ==
  {i \in MainRequests : requests[i].op \in {"put", "chunk"} /\ requests[i].status = "fail"}

\* The message the run reports for a rejected request: the remote's, or the
\* text the engine puts in its place when the remote gave none.
ReportedFor(r) ==
  IF r.msg # "" THEN r.msg
  ELSE IF r.op = "put" THEN "Failed to upload file" ELSE "Failed to upload file chunk"

\* C24: when the remote store rejects a chunk PUT or the single PUT of the
\* main file, no FileRecord is persisted and the run ends with a sendError
\* whose message is the remote store's (or the default text when it gave none).
C24_RejectedPutFailsRun ==
  \A i \in RejectedMainPuts :
    /\ fileRecords = 0
    /\ ~SentEvent("complete")
    /\ orchPc \in {"main", "catch", "failed"}
    /\ Terminated =>
         /\ orchPc = "failed"
         /\ emitted[Len(emitted)] = [type |-> "error", v |-> 0, msg |-> ReportedFor(requests[i])]
         /\ \A k \in 1..(Len(emitted) - 1) : emitted[k].type = "progress"

C24_Witness ==
  /\ orchPc = "failed"
  /\ \E i \in RejectedMainPuts :
       requests[i].op = "chunk" /\ requests[i].first > 0 /\ requests[i].msg # ""

\* An unlink of the temporary file was attempted and the file is still there.
CleanupFailed(name) == name \in unlinked /\ name \in tmpFiles

\* The messages of the errors a step of the run can throw.
PrimaryMessages ==
  {"remote says no", AcquireFailed, "Invalid file data", "Failed to get site information",
   "Failed to get drives", "Documents library not found", "Failed to upload file",
   "Failed to create upload session", "Failed to upload file chunk",
   "Cannot read properties of undefined", "File validation failed",
   "sharePointService.getFileUrls is not a function", "Failed to get download URL"}

\* The outcome as the steps alone decide it.
OutcomeOfSteps ==
  /\ orchPc = "done" =>
       /\ fileRecords = 1
       /\ orchError = ""
       /\ emitted[Len(emitted)].type = "complete"
  /\ orchPc = "failed" =>
       /\ orchError \in PrimaryMessages
       /\ emitted[Len(emitted)] = [type |-> "error", v |-> 0, msg |-> orchError]
       /\ ~SentEvent("complete")

\* A cleanup that fails does not divert the run.
CleanupDivertsNothing ==
  /\ (orchPc \in {"main", "thumb"} /\ upPc = "returned" /\ orchPc' # orchPc)
       => orchPc' \in {"thumb", "create"} /\ orchError' = ""
  /\ orchPc = "catch" => orchError' = orchError /\ fileRecords' = fileRecords

\* C26: a failure to delete a temporary file never changes the outcome: on
\* the success path the FileRecord is still written and sendComplete still
\* emitted, on the failure path sendError still carries the message of the
\* original error.
C26_CleanupFailureKeepsOutcome == []OutcomeOfSteps /\ [][CleanupDivertsNothing]_vars

C26_Witness ==
  /\ orchPc = "failed"
  /\ CleanupFailed("main")
  /\ orchError = "remote says no"

\* The events sent in this step.
NewEvents == {emitted'[k] : k \in (Len(emitted) + 1)..Len(emitted')}

\* C28: progress events are emitted for the main file only: from the start of
\* the thumbnail's upload to the terminal event no sendUploadProgress is
\* called, and the engine is given no callback for the thumbnail.
C28_NoProgressForThumbnail ==
  [][upOwner' = "thumb" =>
       /\ \A e \in NewEvents : e.type # "progress"
       /\ progressCalls' = progressCalls
       /\ ~upCb']_vars

C28_Witness ==
  /\ link = "p007"
  /\ orchPc = "failed"
  /\ upOwner = "thumb" /\ upFile.size > maxChunkSize /\ uploadedBytes = upFile.size
  /\ mainFile.size > maxChunkSize
  /\ emitted[Len(emitted) - 1] = [type |-> "progress", v |-> 100, msg |-> ""]

\* ------------------------------------- a run whose connection goes away
\* The failures of a step that are not a rejected request.
LocalFailures ==
  {AcquireFailed, "Invalid file data", "Documents library not found",
   "File validation failed", "Cannot read properties of undefined"}

\* Every request was accepted and no step up to File.create failed.
StepsSucceeded ==
  /\ \A i \in DOMAIN requests : requests[i].status = "ok"
  /\ orchError \notin LocalFailures

\* The run's connection: an event was sent while it was not open.
LostAnEvent ==
  \E n \in DOMAIN sends : sends[n].ws = "none" \/ sends[n].state # OPEN

\* C22: when the notification connection closes or is unregistered while
\* processUpload runs, the run still reaches its terminal state, and when
\* every step succeeds the FileRecord is persisted as with a live connection:
\* no failure of progress delivery aborts the upload.
C22_RunsWithoutConnection ==
  /\ [](Terminated /\ StepsSucceeded => fileRecords = 1)
  /\ [](orchPc = "failed" => orchError \in PrimaryMessages)
  /\ [](link = "p006" /\ Terminated /\ StepsSucceeded
          /\ orchError # "Failed to get download URL" /\ orchError # "remote says no"
          => orchPc = "done")
  /\ (orchPc # "idle" ~> Terminated)

\* The first progress event was delivered, the connection then closed, the
\* later events were lost and the run ended with its FileRecord written.
C22_Witness ==
  /\ orchPc = "done" /\ fileRecords = 1
  /\ wire["ws1"] = <<1>>
  /\ readyState["ws1"] = CLOSED
  /\ uploadConnections[uploadData.uploadId] = "ws1"
  /\ sends[Len(sends)].type = "complete" /\ sends[Len(sends)].state # OPEN
====
